---------------------------- MODULE Spec2Model ----------------------------
(***************************************************************************)
(* Static analysis engine of the ERPNext code analyzer:                    *)
(*   relationships.py  RelationshipDetector  (call edges and statistics)   *)
(*   extractor.py      CodeExtractor         (classes, functions, imports) *)
(*   analyze.py        analyze_folder        (batch run over many files)   *)
(*                                                                         *)
(* A source text is a sequence of tokens: one token per statement line     *)
(* (its indentation, its kind, the name it declares or calls) and the      *)
(* newline token between lines.  ast.parse is modelled by what it does on  *)
(* such a text: it raises SyntaxError on a malformed line or block         *)
(* structure and otherwise builds the tree, giving every node the number   *)
(* of the line it starts on.  A text may end its lines with '\n' or with  *)
(* '\r'; a file is read with universal newlines.                           *)
(***************************************************************************)
EXTENDS Naturals, Integers, Sequences, FiniteSets, TLC

VARIABLES
    subject,    \* which analyzer object this behaviour exercises
    detector,   \* the fields of the RelationshipDetector
    extractor,  \* the fields of the CodeExtractor
    heap,       \* the list / dict objects the fields and results refer to
    ret,        \* the value returned by the latest call
    code,       \* the source text (or file) given to the latest call
    diag,       \* what the latest call printed on the diagnostic channel
    past,       \* history: the calls made so far, the size of the previous result
    batch,      \* analyze_folder: its position, its files and its aggregates
    error_detector, \* the lists the fields of the ErrorDetector refer to
    chunker     \* chunk_code: its arguments, its position and its chunks

vars == <<subject, detector, extractor, heap, ret, code, diag, past, batch,
          error_detector, chunker>>

-----------------------------------------------------------------------------
(* Bounds of the model.                                                    *)

\* Lines of a text given to an object that is called again and again.
MaxLines == 3
\* Calls made on one object.
MaxCalls == 3
\* Lines of a text given to a new detector.
MaxDetectLines == 3
\* Lines of a text given to a new extractor.
MaxExtractLines == 5
\* Edges of a list whose statistics are calculated.
MaxEdges == 6
\* Files of a folder.
MaxFiles == 4
\* Lines of a text with definitions inside definitions, or with imports.
MaxNestedLines == 4
\* Lines of a text that is chunked, and the largest chunk_size and overlap.
MaxChunkLines == 4
MaxChunkSize == 3

-----------------------------------------------------------------------------
(* Source text.                                                            *)

None == "None"

NL == [k |-> "NL", ind |-> 0, name |-> ""]
\* A carriage return: the line terminator of a text written with '\r' line
\* endings.
CR == [k |-> "CR", ind |-> 0, name |-> ""]

Line(k, ind, name) == [k |-> k, ind |-> ind, name |-> name]

\* The names that definitions at nesting depth d carry in the generated texts.
DefName(d) == IF d = 0 THEN "f" ELSE IF d = 1 THEN "g" ELSE "k"
ClassName(d) == IF d = 0 THEN "A" ELSE IF d = 1 THEN "B" ELSE "C"

\* Statement lines of the generated texts at indentation d, per alphabet.
LinesAt(alphabet, d) ==
    CASE alphabet = "detect_reuse" ->
        { Line("def", d, DefName(d)),          \* def f():
          Line("call_name", d, "g"),           \* g()
          Line("bad", d, "") }                 \* g(
      [] alphabet = "extract_reuse" ->
        { Line("class", d, ClassName(d)),      \* class A:
          Line("defpass", d, "a"),             \* def a(): pass
          Line("bad", d, "") }
      [] alphabet = "detect" ->
        { Line("def", d, DefName(d)),
          Line("asyncdef", d, "a"),            \* async def a():
          Line("call_name", d, "g"),
          Line("call_attr", d, "h"),           \* obj.h()
          Line("call_sub", d, "t"),            \* t[0]()
          Line("call_call", d, "g"),           \* g()()
          Line("bad", d, "") }
      [] alphabet = "extract" ->
        { Line("class", d, ClassName(d)),
          Line("defpass", d, IF d < 2 THEN "a" ELSE "c"),
          Line("defpass", d, IF d < 2 THEN "b" ELSE "c"),
          Line("asyncdefpass", d, "d"),        \* async def d(): pass
          Line("bad", d, "") }
      [] alphabet = "detect_nested" ->
        { Line("def", d, DefName(d)),
          Line("call_name", d, "g"),
          Line("call_attr", d, "h") }
      [] alphabet = "extract_nested" ->
        { Line("def", d, DefName(d)),
          Line("defpass", d, "f"),
          Line("class", d, ClassName(d)),
          Line("import_many", d, ""),          \* import os, sys as s
          Line("from_many", d, "m"),           \* from m import x, y as z
          Line("from_rel", d, "") }            \* from . import x

HeaderKinds == {"def", "asyncdef", "class"}

\* The clauses that follow `try: pass` line by line:
\*   except: pass      except Exception: pass      except Exception: print()
ExceptKinds == {"except_bare", "except_exception", "except_logged"}

\* Indentations the line after `prev` may take in a generated text: the block
\* of a header, or any enclosing level after a simple statement.
NextInds(prev) ==
    IF prev.k \in HeaderKinds THEN {prev.ind + 1} ELSE 0 .. prev.ind

RECURSIVE Join(_)
Join(ls) ==
    IF Len(ls) = 0 THEN <<>>
    ELSE IF Len(ls) = 1 THEN <<ls[1]>>
    ELSE <<ls[1], NL>> \o Join(Tail(ls))

RECURSIVE LineSeqs(_, _)
LineSeqs(n, alphabet) ==
    IF n = 1 THEN { <<l>> : l \in LinesAt(alphabet, 0) }
    ELSE UNION { { s \o <<l>> :
                     l \in UNION { LinesAt(alphabet, d) : d \in NextInds(s[Len(s)]) } }
                 : s \in { q \in LineSeqs(n - 1, alphabet) : q[Len(q)].k # "bad" } }

\* The texts of at most n lines over an alphabet; a malformed line ends a text.
Texts(n, alphabet) ==
    UNION { { Join(ls) : ls \in LineSeqs(m, alphabet) } : m \in 1 .. n }

\* str.split('\n'): the lines of a text, each the tokens between newlines.
RECURSIVE SplitFrom(_, _, _)
SplitFrom(text, i, cur) ==
    IF i > Len(text) THEN <<cur>>
    ELSE IF text[i] = NL THEN <<cur>> \o SplitFrom(text, i + 1, <<>>)
    ELSE SplitFrom(text, i + 1, Append(cur, text[i]))

Split(text) == SplitFrom(text, 1, <<>>)

\* Universal newlines: a '\r' line ending reads as '\n'.  open(path, 'r')
\* translates what it reads this way, and the tokenizer of ast.parse ends a
\* line at either terminator.
TranslateNewlines(text) ==
    [i \in 1 .. Len(text) |-> IF text[i] = CR THEN NL ELSE text[i]]

\* The text with '\r' line endings.
WithCR(text) ==
    [i \in 1 .. Len(text) |-> IF text[i] = NL THEN CR ELSE text[i]]

-----------------------------------------------------------------------------
(* ast.parse: the tree of a text, or SyntaxError.                          *)

\* The statement lines of a text with their line numbers (blank lines carry
\* no statement).
RECURSIVE StmtsFrom(_, _)
StmtsFrom(lines, i) ==
    IF i > Len(lines) THEN <<>>
    ELSE IF lines[i] = <<>> THEN StmtsFrom(lines, i + 1)
    ELSE <<[tok |-> lines[i][1], lineno |-> i, width |-> Len(lines[i])]>>
         \o StmtsFrom(lines, i + 1)

Stmts(text) == StmtsFrom(Split(TranslateNewlines(text)), 1)

\* Statement i is an except clause that does not continue a try statement:
\* the line before it is neither `try: pass` nor an except clause, at the
\* same indentation.  (The parser accepts clauses after a bare `except:`.)
StrayExcept(st, i) ==
    /\ st[i].tok.k \in ExceptKinds
    /\ \/ i = 1
       \/ st[i - 1].tok.k \notin {"trypass"} \cup ExceptKinds
       \/ st[i - 1].tok.ind # st[i].tok.ind

\* Statement i is a `try: pass` with no except clause after it.
BareTry(st, i) ==
    /\ st[i].tok.k = "trypass"
    /\ \/ i = Len(st)
       \/ st[i + 1].tok.k \notin ExceptKinds
       \/ st[i + 1].tok.ind # st[i].tok.ind

\* The parser rejects: two statements run together on a line, an unbalanced
\* line, an indented first statement, a header without an indented block,
\* an indent that no enclosing block has, an except clause without its try
\* and a try without an except clause.
SyntaxError(text) ==
    LET st == Stmts(text)
    IN  \E i \in 1 .. Len(st) :
            \/ st[i].width > 1
            \/ StrayExcept(st, i)
            \/ BareTry(st, i)
            \/ st[i].tok.k = "bad"
            \/ i = 1 /\ st[i].tok.ind # 0
            \/ i > 1 /\ st[i - 1].tok.k \in HeaderKinds
                     /\ st[i].tok.ind # st[i - 1].tok.ind + 1
            \/ i > 1 /\ st[i - 1].tok.k \notin HeaderKinds
                     /\ st[i].tok.ind > st[i - 1].tok.ind
            \/ i = Len(st) /\ st[i].tok.k \in HeaderKinds

Node(type, name, lineno, kids) ==
    [type |-> type, name |-> name, lineno |-> lineno, kids |-> kids]

\* ast.alias: one target of an import statement, a child of the statement.
Alias(name, asname, lineno) ==
    [type |-> "alias", name |-> name, asname |-> asname, lineno |-> lineno,
     kids |-> <<>>]

\* ast.ImportFrom: its module is None for `from . import x`.
ImportFrom(module, lineno, names) ==
    [type |-> "ImportFrom", name |-> "", module |-> module, lineno |-> lineno,
     kids |-> names]

\* The value None where a node may stand.
NoNode == Node("NoneType", "", 0, <<>>)

\* ast.ExceptHandler: its type is None for a bare `except:`, else the
\* expression naming the exception, its first child.
ExceptHandler(exc, lineno, body) ==
    [type |-> "ExceptHandler", name |-> "", exc |-> exc, lineno |-> lineno,
     kids |-> (IF exc = NoNode THEN <<>> ELSE <<exc>>) \o body]

\* The except clauses that follow the `try: pass` before statement i.
RECURSIVE Handlers(_, _)
Handlers(st, i) ==
    IF i > Len(st) \/ st[i].tok.k \notin ExceptKinds THEN <<>>
    ELSE LET ln == st[i].lineno
             pass == Node("Pass", "", ln, <<>>)
             logged == Node("Expr", "", ln,
                           <<Node("Call", "", ln, <<Node("Name", "print", ln, <<>>)>>)>>)
             Exception == Node("Name", "Exception", ln, <<>>)
         IN  <<CASE st[i].tok.k = "except_bare" -> ExceptHandler(NoNode, ln, <<pass>>)
                 [] st[i].tok.k = "except_exception" ->
                        ExceptHandler(Exception, ln, <<pass>>)
                 [] OTHER -> ExceptHandler(Exception, ln, <<logged>>)>>
             \o Handlers(st, i + 1)

\* The last statement of the block that the header st[i] opens.
RECURSIVE BlockEnd(_, _, _)
BlockEnd(st, i, j) ==
    IF j < Len(st) /\ st[j + 1].tok.ind > st[i].tok.ind
    THEN BlockEnd(st, i, j + 1) ELSE j

\* The node of statement i; a call statement is Expr(Call(func, ...)) with
\* the call target as the Call node's first child.
RECURSIVE StmtNode(_, _)
RECURSIVE BlockNodes(_, _, _, _)
StmtNode(st, i) ==
    LET t == st[i].tok
        ln == st[i].lineno
        body == BlockNodes(st, i + 1, BlockEnd(st, i, i), t.ind + 1)
        call(func) == Node("Expr", "", ln, <<Node("Call", "", ln, <<func>>)>>)
    IN  CASE t.k = "def"       -> Node("FunctionDef", t.name, ln, body)
          [] t.k = "asyncdef"  -> Node("AsyncFunctionDef", t.name, ln, body)
          [] t.k = "class"     -> Node("ClassDef", t.name, ln, body)
          [] t.k = "call_name" -> call(Node("Name", t.name, ln, <<>>))
          [] t.k = "call_attr" ->
                call(Node("Attribute", t.name, ln, <<Node("Name", "obj", ln, <<>>)>>))
          [] t.k = "call_sub"  ->
                call(Node("Subscript", "", ln, <<Node("Name", t.name, ln, <<>>)>>))
          [] t.k = "call_call" ->
                call(Node("Call", "", ln, <<Node("Name", t.name, ln, <<>>)>>))
          [] t.k = "defpass"   ->
                Node("FunctionDef", t.name, ln, <<Node("Pass", "", ln, <<>>)>>)
          [] t.k = "asyncdefpass" ->
                Node("AsyncFunctionDef", t.name, ln, <<Node("Pass", "", ln, <<>>)>>)
          [] t.k = "import_many" ->
                Node("Import", "", ln, <<Alias("os", None, ln), Alias("sys", "s", ln)>>)
          [] t.k = "from_many" ->
                ImportFrom(t.name, ln, <<Alias("x", None, ln), Alias("y", "z", ln)>>)
          [] t.k = "from_rel" ->
                ImportFrom(None, ln, <<Alias("x", None, ln)>>)
          [] t.k = "trypass"   ->
                Node("Try", "", ln, <<Node("Pass", "", ln, <<>>)>> \o Handlers(st, i + 1))
          [] OTHER             -> Node("Pass", "", ln, <<>>)

BlockNodes(st, j, hi, d) ==
    IF j > hi THEN <<>>
    ELSE IF st[j].tok.ind = d /\ st[j].tok.k \notin ExceptKinds
         THEN <<StmtNode(st, j)>> \o BlockNodes(st, j + 1, hi, d)
         ELSE BlockNodes(st, j + 1, hi, d)

\* ast.parse(text): the Module node, or the SyntaxError it raises.
Parse(text) ==
    LET st == Stmts(text)
    IN  IF SyntaxError(text) THEN [raised |-> "SyntaxError"]
        ELSE [raised |-> None,
              tree |-> Node("Module", "", 0, BlockNodes(st, 1, Len(st), 0))]

\* The texts an object that is called again and again is given.
DetectReuseUnits == Texts(MaxLines, "detect_reuse")
ExtractReuseUnits == Texts(MaxLines, "extract_reuse")

\* The texts a new detector is given, with either line ending.
DetectUnits ==
    LET texts == Texts(MaxDetectLines, "detect")
    IN  texts \cup { WithCR(t) : t \in texts }
\* The texts of the files a new extractor is given.
ExtractUnits == Texts(MaxExtractLines, "extract")

\* Texts with functions defined inside functions, and texts with functions,
\* classes and imports inside functions and classes.
NestedDetectUnits == Texts(MaxNestedLines, "detect_nested")
NestedExtractUnits == Texts(MaxNestedLines, "extract_nested")

\* The parser's answer for the texts that are parsed again and again,
\* computed once.
Parsed == [text \in DetectReuseUnits \cup ExtractReuseUnits |-> Parse(text)]

ParseOf(text) == IF text \in DOMAIN Parsed THEN Parsed[text] ELSE Parse(text)

\* ast.walk: breadth-first, a node's children appended to the queue.
RECURSIVE WalkQueue(_)
WalkQueue(todo) ==
    IF todo = <<>> THEN <<>>
    ELSE <<Head(todo)>> \o WalkQueue(Tail(todo) \o Head(todo).kids)

Walk(node) == WalkQueue(<<node>>)

-----------------------------------------------------------------------------
(* Objects.  A field or a result holds a reference to a list; the list     *)
(* itself lives in heap, so two references to one list see each other's    *)
(* appends.                                                                *)

EmptyDict == <<>>

DictSet(d, key, v) ==
    [x \in DOMAIN d \cup {key} |-> IF x = key THEN v ELSE d[x]]

\* Python truthiness of a name-or-None value.
Truthy(x) == x # None /\ x # ""

Null == 0

Alloc(hp) == CHOOSE n \in 1 .. Cardinality(DOMAIN hp) + 1 :
                 /\ n \notin DOMAIN hp
                 /\ \A m \in 1 .. n - 1 : m \in DOMAIN hp

Store(hp, ref, v) == [x \in DOMAIN hp \cup {ref} |-> IF x = ref THEN v ELSE hp[x]]

\* Where the live objects sit between calls.  Only the identity of a
\* reference matters, never its number, so after each call the objects still
\* referred to are moved to fixed places and the others are dropped.
DetList == 1    \* the list detector.relationships refers to
RetList == 2    \* the list of the returned value, when it is another list
EntDict == 3    \* the dict extractor.entities refers to

Settle(hp, detRef, retRef, entRef) ==
    [x \in {DetList, EntDict} \cup (IF retRef \in {Null, detRef} THEN {} ELSE {RetList}) |->
        IF x = DetList THEN hp[detRef]
        ELSE IF x = EntDict THEN hp[entRef]
        ELSE hp[retRef]]

-----------------------------------------------------------------------------
(* relationships.py: RelationshipDetector.                                 *)

Edge(caller, callee, line, type) ==
    [caller |-> caller, callee |-> callee, line |-> line, type |-> type]

\* __init__
NewDetector ==
    [self |-> [relationships |-> DetList, function_calls |-> EmptyDict,
               current_function |-> None],
     list |-> <<>>]

\* VisitChild with the receiver of an attribute call recorded as the callee.
VisitChildReceiver(v, child) ==
    IF child.type # "Call" THEN v
    ELSE LET func == child.kids[1]
         IN  IF func.type = "Name" THEN
                 LET v1 == [v EXCEPT !.relationships =
                               Append(@, Edge(v.current_function, func.name,
                                              child.lineno, "function_call"))]
                 IN  IF ~Truthy(v.current_function) THEN v1
                     ELSE [v1 EXCEPT !.function_calls[v.current_function] =
                                        Append(@, func.name)]
             ELSE IF func.type = "Attribute" THEN
                 [v EXCEPT !.relationships =
                     Append(@, Edge(v.current_function, func.kids[1].name,
                                    child.lineno, "method_call"))]
             ELSE v

\* The body of the loop of _find_calls_in_node for one walked node.  v is the
\* object during the call: its list by value, its dict, its binding, and the
\* exception raised so far.
VisitChild(v, child) ==
    IF child.type # "Call" THEN v
    ELSE LET func == child.kids[1]
         IN  IF func.type = "Name" THEN
                 LET v1 == [v EXCEPT !.relationships =
                               Append(@, Edge(v.current_function, func.name,
                                              child.lineno, "function_call"))]
                 IN  IF ~Truthy(v.current_function) THEN v1
                     ELSE IF v.current_function \in DOMAIN v.function_calls
                     THEN [v1 EXCEPT !.function_calls[v.current_function] =
                                        Append(@, func.name)]
                     ELSE [v1 EXCEPT !.raised = "KeyError"]
             ELSE IF func.type = "Attribute" THEN
                 [v EXCEPT !.relationships =
                     Append(@, Edge(v.current_function, func.name,
                                    child.lineno, "method_call"))]
             ELSE v

RECURSIVE FindCallsLoop(_, _, _)
FindCallsLoop(v, nodes, i) ==
    IF i > Len(nodes) \/ v.raised # None THEN v
    ELSE FindCallsLoop(VisitChild(v, nodes[i]), nodes, i + 1)

_find_calls_in_node(v, node) == FindCallsLoop(v, Walk(node), 1)

\* IsFunctionNode with def statements alone taken as functions.
IsFunctionNodeSyncOnly(node) == node.type = "FunctionDef"

IsFunctionNode(node) == node.type \in {"FunctionDef", "AsyncFunctionDef"}

\* The body of the loop of _analyze_calls for one walked node.
VisitNode(v, node) ==
    IF IsFunctionNode(node)
    THEN _find_calls_in_node(
             [v EXCEPT !.current_function = node.name,
                       !.function_calls = DictSet(@, node.name, <<>>)],
             node)
    ELSE v

RECURSIVE AnalyzeLoop(_, _, _)
AnalyzeLoop(v, nodes, i) ==
    IF i > Len(nodes) \/ v.raised # None THEN v
    ELSE AnalyzeLoop(VisitNode(v, nodes[i]), nodes, i + 1)

_analyze_calls(v, tree) == AnalyzeLoop(v, Walk(tree), 1)

\* The keys of a counting dict in insertion order: the distinct values of a
\* sequence, first seen first.
RECURSIVE FirstSeen(_)
FirstSeen(xs) ==
    IF xs = <<>> THEN <<>>
    ELSE LET init == FirstSeen(SubSeq(xs, 1, Len(xs) - 1))
             last == xs[Len(xs)]
         IN  IF \E i \in 1 .. Len(init) : init[i] = last THEN init
             ELSE Append(init, last)

Count(xs, x) == Cardinality({i \in 1 .. Len(xs) : xs[i] = x})

\* call_counts.items(): (key, count) pairs in insertion order.
Items(xs) == [i \in 1 .. Len(FirstSeen(xs)) |-> <<FirstSeen(xs)[i], Count(xs, FirstSeen(xs)[i])>>]

\* sorted(items, key=count, reverse=True): stable, so equal counts keep
\* their order.  Insertion of one pair after the pairs not smaller than it.
RECURSIVE SortedByCount(_)
SortedByCount(items) ==
    IF items = <<>> THEN <<>>
    ELSE LET init == SortedByCount(SubSeq(items, 1, Len(items) - 1))
             x == items[Len(items)]
             keep == Cardinality({i \in 1 .. Len(init) : init[i][2] >= x[2]})
         IN  SubSeq(init, 1, keep) \o <<x>> \o SubSeq(init, keep + 1, Len(init))

Take(xs, n) == SubSeq(xs, 1, IF Len(xs) < n THEN Len(xs) ELSE n)

Column(rels, key) == [i \in 1 .. Len(rels) |-> rels[i][key]]

Reverse(xs) == [i \in 1 .. Len(xs) |-> xs[Len(xs) + 1 - i]]

\* _get_most_called with equal counts in the reverse of their first-seen
\* order.
MostCalledTiesReversed(rels, limit) ==
    Take(SortedByCount(Reverse(Items(Column(rels, "callee")))), limit)

_get_most_called(rels, limit) ==
    Take(SortedByCount(Items(Column(rels, "callee"))), limit)

_get_most_calls_from(rels, limit) ==
    Take(SortedByCount(Items(Column(rels, "caller"))), limit)

TopLimit == 5

\* _calculate_stats with the callers and callees counted once per edge.
CalculateStatsPerEdge(rels) ==
    IF rels = <<>>
    THEN [total_calls |-> 0, unique_callers |-> 0, unique_callees |-> 0]
    ELSE [total_calls |-> Len(rels),
          unique_callers |-> Len(Column(rels, "caller")),
          unique_callees |-> Len(Column(rels, "callee")),
          most_called |-> _get_most_called(rels, TopLimit),
          most_calls_from |-> _get_most_calls_from(rels, TopLimit)]

_calculate_stats(rels) ==
    IF rels = <<>>
    THEN [total_calls |-> 0, unique_callers |-> 0, unique_callees |-> 0]
    ELSE [total_calls |-> Len(rels),
          unique_callers |-> Cardinality({rels[i].caller : i \in 1 .. Len(rels)}),
          unique_callees |-> Cardinality({rels[i].callee : i \in 1 .. Len(rels)}),
          most_called |-> _get_most_called(rels, TopLimit),
          most_calls_from |-> _get_most_calls_from(rels, TopLimit)]

\* ResetFields without the new list: the edges of earlier calls stay.
ResetFieldsKeepList(obj, hp) ==
    [self |-> [obj EXCEPT !.function_calls = EmptyDict], heap |-> hp]

\* ResetFields with the list emptied in place instead of replaced.
ResetFieldsInPlace(obj, hp) ==
    [self |-> [obj EXCEPT !.function_calls = EmptyDict],
     heap |-> Store(hp, obj.relationships, <<>>)]

\* detect_relationships, lines 21-22: the fields rebound to a new list and a
\* new dict.
ResetFields(obj, hp) ==
    LET r == Alloc(hp)
    IN  [self |-> [obj EXCEPT !.relationships = r, !.function_calls = EmptyDict],
         heap |-> Store(hp, r, <<>>)]

\* detect_relationships: the object, the heap and the returned value after
\* the call.
detect_relationships(obj, hp, text) ==
    LET fresh == ResetFields(obj, hp)
        o1 == fresh.self
        h1 == fresh.heap
        parsed == ParseOf(text)
    IN  IF parsed.raised = "SyntaxError"
        THEN LET e == Alloc(h1)
             IN  [self |-> o1, heap |-> Store(h1, e, <<>>),
                  ret |-> [op |-> "detect_relationships", raised |-> None,
                           relationships |-> e, stats |-> EmptyDict]]
        ELSE LET v == _analyze_calls(
                          [relationships |-> h1[o1.relationships],
                           function_calls |-> o1.function_calls,
                           current_function |-> o1.current_function,
                           raised |-> None],
                          parsed.tree)
                 o2 == [o1 EXCEPT !.function_calls = v.function_calls,
                                  !.current_function = v.current_function]
                 h2 == Store(h1, o1.relationships, v.relationships)
             IN  IF v.raised # None
                 THEN [self |-> o2, heap |-> h2,
                       ret |-> [op |-> "detect_relationships", raised |-> v.raised,
                                relationships |-> Null, stats |-> EmptyDict]]
                 ELSE [self |-> o2, heap |-> h2,
                       ret |-> [op |-> "detect_relationships", raised |-> None,
                                relationships |-> o2.relationships,
                                stats |-> _calculate_stats(h2[o2.relationships])]]

-----------------------------------------------------------------------------
(* extractor.py: CodeExtractor.                                            *)

\* __init__
NewExtractor ==
    [self |-> [entities |-> EntDict, current_file |-> ""],
     dict |-> [classes |-> <<>>, functions |-> <<>>, imports |-> <<>>,
               decorators |-> <<>>]]

RECURSIVE NamesOfType(_, _)
NamesOfType(nodes, type) ==
    IF nodes = <<>> THEN <<>>
    ELSE (IF Head(nodes).type = type THEN <<Head(nodes).name>> ELSE <<>>)
         \o NamesOfType(Tail(nodes), type)

\* _extract_class with the methods gathered from the whole subtree of the
\* class.
ExtractClassSubtree(ent, node) ==
    LET methods == NamesOfType(Tail(Walk(node)), "FunctionDef")
    IN  [ent EXCEPT !.classes =
            Append(@, [name |-> node.name, line |-> node.lineno,
                       methods |-> methods, method_count |-> Len(methods),
                       bases |-> <<"object">>, docstring |-> ""])]

\* _extract_class with the async def statements of the body among the
\* methods.
ExtractClassAsyncMethods(ent, node) ==
    LET IsDef(n) == n.type \in {"FunctionDef", "AsyncFunctionDef"}
        defs == SelectSeq(node.kids, IsDef)
        methods == [i \in 1 .. Len(defs) |-> defs[i].name]
    IN  [ent EXCEPT !.classes =
            Append(@, [name |-> node.name, line |-> node.lineno,
                       methods |-> methods, method_count |-> Len(methods),
                       bases |-> <<"object">>, docstring |-> ""])]

\* The generated texts declare no base classes, parameters, decorators or
\* docstrings, so those fields take their values for an absent one.
_extract_class(ent, node) ==
    LET methods == NamesOfType(node.kids, "FunctionDef")
    IN  [ent EXCEPT !.classes =
            Append(@, [name |-> node.name, line |-> node.lineno,
                       methods |-> methods, method_count |-> Len(methods),
                       bases |-> <<"object">>, docstring |-> ""])]

\* _extract_function with a function whose name is already recorded left
\* out.
ExtractFunctionDedup(ent, node) ==
    IF \E n \in 1 .. Len(ent.functions) : ent.functions[n].name = node.name
    THEN ent
    ELSE [ent EXCEPT !.functions =
             Append(@, [name |-> node.name, line |-> node.lineno,
                        args |-> <<>>, arg_count |-> 0,
                        decorators |-> <<>>, docstring |-> ""])]

_extract_function(ent, node) ==
    [ent EXCEPT !.functions =
        Append(@, [name |-> node.name, line |-> node.lineno,
                   args |-> <<>>, arg_count |-> 0,
                   decorators |-> <<>>, docstring |-> ""])]

\* One record per target of `import a, b as c`.
ImportRecords(node) ==
    [i \in 1 .. Len(node.kids) |->
        [type |-> "import", module |-> node.kids[i].name,
         alias |-> node.kids[i].asname, line |-> node.lineno]]

\* One record per target of `from m import a, b as c`; `node.module or ""`.
FromRecords(node) ==
    [i \in 1 .. Len(node.kids) |->
        [type |-> "from", module |-> IF Truthy(node.module) THEN node.module ELSE "",
         name |-> node.kids[i].name, alias |-> node.kids[i].asname,
         line |-> node.lineno]]

\* _extract_import with one record for a statement, that of its first
\* target.
ExtractImportFirstTarget(ent, node) ==
    IF node.type = "Import"
    THEN [ent EXCEPT !.imports = @ \o SubSeq(ImportRecords(node), 1, 1)]
    ELSE IF node.type = "ImportFrom"
    THEN [ent EXCEPT !.imports = @ \o SubSeq(FromRecords(node), 1, 1)]
    ELSE ent

_extract_import(ent, node) ==
    IF node.type = "Import" THEN [ent EXCEPT !.imports = @ \o ImportRecords(node)]
    ELSE IF node.type = "ImportFrom" THEN [ent EXCEPT !.imports = @ \o FromRecords(node)]
    ELSE ent

\* The body of the loop of _walk_tree for one walked node.
ExtractNode(ent, node) ==
    IF node.type = "ClassDef" THEN _extract_class(ent, node)
    ELSE IF node.type = "FunctionDef" THEN _extract_function(ent, node)
    ELSE IF node.type \in {"Import", "ImportFrom"} THEN _extract_import(ent, node)
    ELSE ent

RECURSIVE WalkTreeLoop(_, _, _)
WalkTreeLoop(ent, nodes, i) ==
    IF i > Len(nodes) THEN ent
    ELSE WalkTreeLoop(ExtractNode(ent, nodes[i]), nodes, i + 1)

_walk_tree(ent, tree) == WalkTreeLoop(ent, Walk(tree), 1)

\* len(code.split('\n'))
TotalLines(text) == Len(Split(text))

\* ResetEntities with the collections of the earlier call carried over.
ResetEntitiesStale(old, path, text) ==
    [classes |-> old.classes, functions |-> old.functions,
     imports |-> old.imports, decorators |-> old.decorators,
     file_path |-> path, total_lines |-> TotalLines(text)]

\* extract_from_file, lines 36-43: the new dict self.entities is bound to.
\* `old` is the dict it was bound to.
ResetEntities(old, path, text) ==
    [classes |-> <<>>, functions |-> <<>>, imports |-> <<>>, decorators |-> <<>>,
     file_path |-> path, total_lines |-> TotalLines(text)]

\* Read with the bytes of the file taken as they are.
ReadUntranslated(file) == file.text

\* extract_from_file, lines 29-30: open(file_path, 'r').read().
Read(file) == TranslateNewlines(file.text)

\* TryWalk without the handler: the SyntaxError leaves extract_from_file.
TryWalkUncaught(ent, parsed) ==
    IF parsed.raised = "SyntaxError"
    THEN [ent |-> ent, raised |-> "SyntaxError", diag |-> <<>>]
    ELSE [ent |-> _walk_tree(ent, parsed.tree), raised |-> None, diag |-> <<>>]

\* extract_from_file, lines 45-49: parse and walk, a SyntaxError printed.
TryWalk(ent, parsed) ==
    IF parsed.raised = "SyntaxError"
    THEN [ent |-> ent, raised |-> None, diag |-> <<"Syntax error in">>]
    ELSE [ent |-> _walk_tree(ent, parsed.tree), raised |-> None, diag |-> <<>>]

\* extract_from_file: the object, the heap, the returned value and the
\* diagnostic output after the call.
extract_from_file(obj, hp, file) ==
    IF ~file.readable
    THEN [self |-> obj, heap |-> hp,
          ret |-> [op |-> "extract_from_file", raised |-> None,
                   entities |-> obj.entities],
          diag |-> <<"Error reading file">>]
    ELSE LET r == Alloc(hp)
             o1 == [obj EXCEPT !.current_file = file.path, !.entities = r]
             text == Read(file)
             walked == TryWalk(ResetEntities(hp[obj.entities], file.path, text),
                               ParseOf(text))
         IN  [self |-> o1,
              heap |-> Store(hp, r, walked.ent),
              ret |-> [op |-> "extract_from_file", raised |-> walked.raised,
                       entities |-> r],
              diag |-> walked.diag]

File(path, text) == [path |-> path, readable |-> TRUE, text |-> text]
Unreadable(path) == [path |-> path, readable |-> FALSE, text |-> <<>>]

ExtractFiles(texts) == { File("m.py", t) : t \in texts } \cup { Unreadable("m.py") }

-----------------------------------------------------------------------------
(* errors.py: ErrorDetector.                                               *)

\* __init__
NewErrorDetector == [errors |-> <<>>, warnings |-> <<>>]

\* An issue dict; its message is fixed by its type.
Issue(type, line) == [type |-> type, line |-> line]

\* The line of an issue that has none ("line": None), written as a number
\* no line has.
NoLine == 0

\* An issue of a type for each node of a sequence, in their order.
IssuesOf(nodes, type) ==
    [i \in 1 .. Len(nodes) |-> Issue(type, nodes[i].lineno)]

IsBareExcept(node) == node.type = "ExceptHandler" /\ node.exc = NoNode

\* Rule 1: an error for every except clause without a type.
_check_bare_except(tree) == IssuesOf(SelectSeq(Walk(tree), IsBareExcept), "BareExcept")

\* A call of a bare name among print, log, logger:
\* getattr(n.func, "id", "") in ["print", "log", "logger"].
IsLoggingCall(n) ==
    /\ n.type = "Call"
    /\ n.kids[1].type = "Name"
    /\ n.kids[1].name \in {"print", "log", "logger"}

IsBroadException(node) ==
    /\ node.type = "ExceptHandler"
    /\ node.exc.type = "Name" /\ node.exc.name = "Exception"
    /\ ~\E i \in 1 .. Len(Walk(node)) : IsLoggingCall(Walk(node)[i])

\* Rule 2: a warning for every `except Exception` that logs nothing.
_check_broad_exception(tree) == IssuesOf(SelectSeq(Walk(tree), IsBroadException), "BroadException")

\* node.end_lineno: the last line of the statements of a node.
EndLine(node) ==
    CHOOSE m \in { Walk(node)[i].lineno : i \in 1 .. Len(Walk(node)) } :
        \A i \in 1 .. Len(Walk(node)) : Walk(node)[i].lineno <= m

LargeFunctionLimit == 80
LargeClassLimit == 30

IsLargeFunction(node) ==
    node.type = "FunctionDef" /\ EndLine(node) - node.lineno > LargeFunctionLimit

\* Rule 3: a warning for every function longer than the limit.
_check_large_functions(tree) == IssuesOf(SelectSeq(Walk(tree), IsLargeFunction), "LargeFunction")

IsLargeClass(node) ==
    /\ node.type = "ClassDef"
    /\ Len(NamesOfType(node.kids, "FunctionDef")) > LargeClassLimit

\* Rule 4: a warning for every class with more methods than the limit.
_check_large_classes(tree) == IssuesOf(SelectSeq(Walk(tree), IsLargeClass), "LargeClass")

IsThrowCall(n) ==
    n.type = "Call" /\ n.kids[1].type = "Name" /\ n.kids[1].name = "throw"

\* Rule 5: one warning, without a line, when a function named validate
\* exists and no function named validate calls throw.
_check_erpnext_validations(tree) ==
    LET IsValidate(node) == node.type = "FunctionDef" /\ node.name = "validate"
        HasThrow(node) == \E i \in 1 .. Len(Walk(node)) : IsThrowCall(Walk(node)[i])
        nodes == Walk(tree)
        has_validate == \E i \in 1 .. Len(nodes) : IsValidate(nodes[i])
        has_throw == \E i \in 1 .. Len(nodes) : IsValidate(nodes[i]) /\ HasThrow(nodes[i])
    IN  IF has_validate /\ ~has_throw
        THEN <<Issue("ERPNextValidation", NoLine)>> ELSE <<>>

\* ErrorDetector.analyze, lines 18-27, after ast.parse did `parsed`: a
\* SyntaxError leaves the call, the parse not being guarded; else each rule
\* appends what it finds to the lists of the object.  The value returned
\* refers to those same lists.
AnalyzeParsed(obj, parsed) ==
    IF parsed.raised = "SyntaxError"
    THEN [self |-> obj, raised |-> "SyntaxError"]
    ELSE [self |->
            [errors |-> obj.errors \o _check_bare_except(parsed.tree),
             warnings |-> obj.warnings
                          \o _check_broad_exception(parsed.tree)
                          \o _check_large_functions(parsed.tree)
                          \o _check_large_classes(parsed.tree)
                          \o _check_erpnext_validations(parsed.tree)],
          raised |-> None]

\* ErrorDetector.analyze
analyze(obj, text) == AnalyzeParsed(obj, ParseOf(text))

\* No text is being chunked.
NoChunker == [pc |-> "none"]

-----------------------------------------------------------------------------
(* The state machine: one analyzer object, called again and again.  The    *)
(* two classes share no state, so a behaviour exercises one of them.       *)

NoRet == [op |-> "none", raised |-> None]
\* No folder is being analysed.
NoBatch == [pc |-> "none"]

Init ==
    /\ subject \in {"detector", "extractor"}
    /\ detector = NewDetector.self
    /\ extractor = NewExtractor.self
    /\ heap = Store(Store(<<>>, DetList, NewDetector.list), EntDict, NewExtractor.dict)
    /\ ret = NoRet
    /\ code = <<>>
    /\ diag = <<>>
    /\ past = [calls |-> 0, size |-> 0]
    /\ error_detector = NewErrorDetector
    /\ chunker = NoChunker
    /\ batch = NoBatch

\* The edges of the value a detector call returned.
RetEdges == heap[ret.relationships]
\* The dict an extractor call returned.
RetEntities == heap[ret.entities]

\* How many records the latest call returned.
RetSize ==
    IF ret.op = "detect_relationships" THEN Len(RetEdges)
    ELSE IF ret.op = "extract_from_file"
    THEN Len(RetEntities.classes) + Len(RetEntities.functions)
    ELSE IF ret.op = "analyze" /\ ret.raised = None
    THEN Len(error_detector.errors) + Len(error_detector.warnings)
    ELSE 0

Detect(text) ==
    /\ subject = "detector"
    /\ past.calls < MaxCalls
    /\ LET r == detect_relationships(detector, heap, text)
       IN  /\ detector' = [r.self EXCEPT !.relationships = DetList]
           /\ ret' = [r.ret EXCEPT !.relationships =
                        IF @ = Null THEN Null
                        ELSE IF @ = r.self.relationships THEN DetList ELSE RetList]
           /\ heap' = Settle(r.heap, r.self.relationships, r.ret.relationships,
                             extractor.entities)
    /\ code' = text
    /\ diag' = <<>>
    /\ past' = [calls |-> past.calls + 1, size |-> RetSize]
    /\ UNCHANGED <<error_detector, chunker, subject, extractor, batch>>

Extract(file) ==
    /\ subject = "extractor"
    /\ past.calls < MaxCalls
    /\ LET r == extract_from_file(extractor, heap, file)
       IN  /\ extractor' = [r.self EXCEPT !.entities = EntDict]
           /\ ret' = [r.ret EXCEPT !.entities = EntDict]
           /\ heap' = Settle(r.heap, detector.relationships, Null, r.self.entities)
           /\ diag' = r.diag
    /\ code' = file
    /\ past' = [calls |-> past.calls + 1, size |-> RetSize]
    /\ UNCHANGED <<error_detector, chunker, subject, detector, batch>>

Next ==
    \/ \E text \in DetectReuseUnits : Detect(text)
    \/ \E file \in ExtractFiles(ExtractReuseUnits) : Extract(file)

Spec == Init /\ [][Next]_vars

\* A new object, called once.
NextFresh ==
    \/ \E text \in DetectUnits : past.calls = 0 /\ Detect(text)
    \/ \E file \in ExtractFiles(ExtractUnits) : past.calls = 0 /\ Extract(file)

SpecFresh == Init /\ [][NextFresh]_vars

\* A new object, called once on a text with nested definitions.
NextNested ==
    \/ \E text \in NestedDetectUnits : past.calls = 0 /\ Detect(text)
    \/ \E file \in ExtractFiles(NestedExtractUnits) : past.calls = 0 /\ Extract(file)

SpecNested == Init /\ [][NextNested]_vars

-----------------------------------------------------------------------------
(* One ErrorDetector, called again and again.                              *)

\* The texts an ErrorDetector is given: a try statement with a bare except
\* clause, with `except Exception` that logs nothing, with one that prints;
\* a function validate that calls throw and one that does not; a text no
\* rule reports on; a malformed text.
ErrorUnits ==
    { Join(<<Line("trypass", 0, ""), Line("except_bare", 0, "")>>),
      Join(<<Line("trypass", 0, ""), Line("except_exception", 0, "")>>),
      Join(<<Line("trypass", 0, ""), Line("except_logged", 0, "")>>),
      Join(<<Line("def", 0, "validate"), Line("call_name", 1, "throw")>>),
      <<Line("defpass", 0, "validate")>>,
      <<Line("defpass", 0, "f")>>,
      <<Line("bad", 0, "")>> }

InitErrors ==
    /\ subject = "error_detector"
    /\ detector = NewDetector.self
    /\ extractor = NewExtractor.self
    /\ heap = Store(Store(<<>>, DetList, NewDetector.list), EntDict, NewExtractor.dict)
    /\ ret = NoRet
    /\ code = <<>>
    /\ diag = <<>>
    /\ past = [calls |-> 0, size |-> 0]
    /\ error_detector = NewErrorDetector
    /\ chunker = NoChunker
    /\ batch = NoBatch

\* ErrorDetector.analyze(text).  The dict returned holds the lists of the
\* object, so its errors and warnings are read from error_detector.
Analyze(text) ==
    /\ subject = "error_detector"
    /\ past.calls < MaxCalls
    /\ LET r == analyze(error_detector, text)
       IN  /\ error_detector' = r.self
           /\ ret' = [op |-> "analyze", raised |-> r.raised]
    /\ code' = text
    /\ diag' = <<>>
    /\ past' = [calls |-> past.calls + 1, size |-> RetSize]
    /\ UNCHANGED <<subject, detector, extractor, heap, batch, chunker>>

NextErrors == \E text \in ErrorUnits : Analyze(text)

SpecErrors == InitErrors /\ [][NextErrors]_vars

-----------------------------------------------------------------------------
(* rag.py: CodeRAGSystem.chunk_code, its loop one window at a time.        *)

\* A run of blanks: the content of a line of whitespace.
SP == [k |-> "SP", ind |-> 0, name |-> ""]

IsSpace(tok) == tok \in {NL, CR, SP}

\* str.strip(): the text without its leading and trailing whitespace.
Strip(text) ==
    LET keep == { i \in 1 .. Len(text) : ~IsSpace(text[i]) }
        first == CHOOSE i \in keep : \A j \in keep : i <= j
        last == CHOOSE i \in keep : \A j \in keep : j <= i
    IN  IF keep = {} THEN <<>> ELSE SubSeq(text, first, last)

\* "\n".join(lines)
RECURSIVE JoinLines(_)
JoinLines(lines) ==
    IF Len(lines) = 0 THEN <<>>
    ELSE IF Len(lines) = 1 THEN lines[1]
    ELSE lines[1] \o <<NL>> \o JoinLines(Tail(lines))

Min(a, b) == IF a < b THEN a ELSE b

\* The texts that are chunked: each line empty, blank, or a statement.
RECURSIVE ChunkLineSeqs(_)
ChunkLineSeqs(n) ==
    IF n = 0 THEN { <<>> }
    ELSE { Append(ls, l) : ls \in ChunkLineSeqs(n - 1),
                           l \in { <<>>, <<SP>>, <<Line("call_name", 0, "g")>> } }

ChunkUnits == UNION { { JoinLines(ls) : ls \in ChunkLineSeqs(n) } : n \in 0 .. MaxChunkLines }

\* ChunkStep with the overlap added instead of subtracted.
ChunkStepPlusOverlap(chunk_size, overlap) == chunk_size + overlap

\* chunk_code, line 49: step = chunk_size - overlap
ChunkStep(chunk_size, overlap) == chunk_size - overlap

\* chunk_code, lines 51-59: the chunk of the window that starts at index i.
Chunk(lines, i, chunk_size) ==
    [text |-> JoinLines(SubSeq(lines, i + 1, Min(i + chunk_size, Len(lines)))),
     start_line |-> i + 1,
     end_line |-> Min(i + chunk_size, Len(lines))]

InitChunk ==
    /\ subject = "chunker"
    /\ detector = NewDetector.self
    /\ extractor = NewExtractor.self
    /\ heap = Store(Store(<<>>, DetList, NewDetector.list), EntDict, NewExtractor.dict)
    /\ ret = NoRet
    /\ \E text \in ChunkUnits : code = text
    /\ diag = <<>>
    /\ past = [calls |-> 0, size |-> 0]
    /\ error_detector = NewErrorDetector
    /\ batch = NoBatch
    /\ \E chunk_size \in 0 .. MaxChunkSize, overlap \in -1 .. MaxChunkSize :
           chunker = [pc |-> "start", chunk_size |-> chunk_size, overlap |-> overlap]

\* chunk_code, lines 46-50: the lines, the step and the range of the loop;
\* range() raises ValueError for a step of zero.  `windows` records the
\* indices the loop has taken.
ChunkStart ==
    /\ subject = "chunker"
    /\ chunker.pc = "start"
    /\ LET step == ChunkStep(chunker.chunk_size, chunker.overlap)
       IN  chunker' =
             [pc |-> IF step = 0 THEN "raised" ELSE "loop",
              chunk_size |-> chunker.chunk_size, overlap |-> chunker.overlap,
              lines |-> Split(code), step |-> step, i |-> 0,
              chunks |-> <<>>, windows |-> <<>>]
    /\ UNCHANGED <<subject, detector, extractor, heap, ret, code, diag, past,
                   batch, error_detector>>

\* range(0, len(lines), step) has a value at i: none when step is negative.
InRange(c) == c.step > 0 /\ c.i < Len(c.lines)

\* chunk_code, lines 50-59: one turn of the loop.
ChunkWindow ==
    /\ subject = "chunker"
    /\ chunker.pc = "loop"
    /\ InRange(chunker)
    /\ LET chunk == Chunk(chunker.lines, chunker.i, chunker.chunk_size)
       IN  chunker' =
             [chunker EXCEPT
                !.chunks = IF Strip(chunk.text) # <<>> THEN Append(@, chunk) ELSE @,
                !.windows = Append(@, chunker.i),
                !.i = @ + chunker.step]
    /\ UNCHANGED <<subject, detector, extractor, heap, ret, code, diag, past,
                   batch, error_detector>>

\* chunk_code, line 61: the loop has ended; return chunks.
ChunkReturn ==
    /\ subject = "chunker"
    /\ chunker.pc = "loop"
    /\ ~InRange(chunker)
    /\ chunker' = [chunker EXCEPT !.pc = "done"]
    /\ ret' = [op |-> "chunk_code", raised |-> None]
    /\ UNCHANGED <<subject, detector, extractor, heap, code, diag, past,
                   batch, error_detector>>

NextChunk ==
    \/ ChunkStart
    \/ ChunkWindow
    \/ ChunkReturn

\* The call is one sequential program: while a step remains it is taken.
SpecChunk == InitChunk /\ [][NextChunk]_vars /\ WF_vars(NextChunk)

-----------------------------------------------------------------------------
(* _calculate_stats over the edge lists a detector can hold.               *)

\* Names of the functions in an edge list: few on one side, more than
\* TopLimit on the other.
FewNames == <<"f", "g">>
ManyNames == <<"p", "q", "r", "s", "t", "u", "v", "w">>

Largest(p) == IF p = <<>> THEN 0
              ELSE CHOOSE m \in { p[i] : i \in 1 .. Len(p) } :
                       \A i \in 1 .. Len(p) : p[i] <= m

\* The sequences of n name indices in which a name appears for the first
\* time only after all names before it: one sequence per pattern of equal
\* and different names, the statistics depending on no more than that.
RECURSIVE Patterns(_, _)
Patterns(n, most) ==
    IF n = 0 THEN { <<>> }
    ELSE UNION { { Append(p, i) :
                     i \in 1 .. (IF Largest(p) + 1 < most THEN Largest(p) + 1 ELSE most) }
                 : p \in Patterns(n - 1, most) }

\* The sequences of n name indices that name one function and then another.
Blocks(n) ==
    IF n = 0 THEN { <<>> }
    ELSE { [i \in 1 .. n |-> IF i <= a THEN 1 ELSE 2] : a \in 1 .. n }

\* The edge lists of n calls, call i on line 2 * i; the many names on the
\* callee side or on the caller side.
EdgeLists(n) ==
    { [i \in 1 .. n |-> Edge(FewNames[a[i]], ManyNames[b[i]], 2 * i, "function_call")]
        : a \in Blocks(n), b \in Patterns(n, Len(ManyNames)) }
    \cup
    { [i \in 1 .. n |-> Edge(ManyNames[b[i]], FewNames[a[i]], 2 * i, "function_call")]
        : a \in Blocks(n), b \in Patterns(n, Len(ManyNames)) }

InitStats ==
    /\ subject = "stats"
    /\ detector = NewDetector.self
    /\ extractor = NewExtractor.self
    /\ \E n \in 0 .. MaxEdges : \E rels \in EdgeLists(n) :
           heap = Store(Store(<<>>, DetList, rels), EntDict, NewExtractor.dict)
    /\ ret = NoRet
    /\ code = <<>>
    /\ diag = <<>>
    /\ past = [calls |-> 0, size |-> 0]
    /\ error_detector = NewErrorDetector
    /\ chunker = NoChunker
    /\ batch = NoBatch

CalculateStats ==
    /\ subject = "stats"
    /\ ret.op = "none"
    /\ ret' = [op |-> "_calculate_stats", raised |-> None,
               stats |-> _calculate_stats(heap[detector.relationships])]
    /\ UNCHANGED <<error_detector, chunker, subject, detector, extractor, heap, code, diag, past, batch>>

NextStats == CalculateStats

SpecStats == InitStats /\ [][NextStats]_vars

-----------------------------------------------------------------------------
(* analyze.py: analyze_folder, from the list of files to the aggregated    *)
(* results.  One extractor and one detector serve every file.              *)

\* find_python_files returns the paths sorted.
Paths == <<"a.py", "b.py", "c.py", "d.py", "e.py", "f.py">>

\* The texts of the files of a folder: a function with a call, a class with
\* a method, and a malformed text.
BatchUnits ==
    { Join(<<Line("def", 0, "f"), Line("call_name", 1, "g")>>),
      Join(<<Line("class", 0, "A"), Line("defpass", 1, "a")>>),
      <<Line("bad", 0, "")>> }

\* The lists of n files; a file may also be one that cannot be opened.
RECURSIVE FileLists(_)
FileLists(n) ==
    IF n = 0 THEN { <<>> }
    ELSE { Append(fs, f) :
             fs \in FileLists(n - 1),
             f \in { File(Paths[n], t) : t \in BatchUnits } \cup { Unreadable(Paths[n]) } }

\* analyze_folder, lines 119-151: the empty aggregates.  `visited` records the
\* files the loop has taken, in order.
NewBatch(files) ==
    [pc |-> "start", files |-> files, idx |-> 0, visited |-> <<>>,
     all_issues |-> <<>>,
     all_entities |-> [classes |-> <<>>, functions |-> <<>>, imports |-> <<>>],
     all_relationships |->
         [calls |-> <<>>,
          stats |-> [total_calls |-> 0, unique_callers |-> 0,
                     unique_callees |-> 0, most_called |-> <<>>]],
     file_details |-> EmptyDict]

\* dict.get(key, default)
DictGet(d, key, default) == IF key \in DOMAIN d THEN d[key] ELSE default

\* entity['file'] = relative_path
Tag(e, path) == [x \in DOMAIN e \cup {"file"} |-> IF x = "file" THEN path ELSE e[x]]

TagAll(es, path) == [i \in 1 .. Len(es) |-> Tag(es[i], path)]

\* ErrorDetector().analyze(code): a new ErrorDetector for every file.
\* file_issues["errors"], file_issues["warnings"] of what analyze did.
FileIssues(r) ==
    [raised |-> r.raised, errors |-> r.self.errors, warnings |-> r.self.warnings]

ErrorDetector_analyze(text) == FileIssues(analyze(NewErrorDetector, text))

\* A handler that catches the failure to open a file and nothing else.
ExceptOSError(raised) == raised = "OSError"

\* analyze_folder, line 212: `except Exception` catches whatever the body of
\* the loop raises, SyntaxError and OSError being subclasses of Exception.
ExceptException(raised) == raised \in {"OSError", "SyntaxError", "KeyError"}

\* analyze_folder, lines 171-210: the body of the loop for one file, after
\* extract_from_file did e, detect_relationships did r and the analyze of a
\* new ErrorDetector did file_issues.  What it raises, and the aggregates and
\* objects as they are when it ends or raises.
AnalyzeFileBody(b, file, e, r, file_issues) ==
    LET relationships == [relationships |-> r.ret.relationships, stats |-> r.ret.stats]
        entities == r.heap[e.ret.entities]
        tagged == [entities EXCEPT !.classes = TagAll(@, file.path),
                                   !.functions = TagAll(@, file.path),
                                   !.imports = TagAll(@, file.path)]
        calls == DictGet(relationships, "calls", <<>>)
        total == DictGet(DictGet(relationships, "stats", EmptyDict), "total_calls", 0)
        settled(h) == Settle(h, r.self.relationships, Null, e.self.entities)
        det1 == [r.self EXCEPT !.relationships = DetList]
        ext1 == [e.self EXCEPT !.entities = EntDict]
    IN  IF r.ret.raised # None
        THEN [raised |-> r.ret.raised, batch |-> b, detector |-> det1,
              extractor |-> ext1, heap |-> settled(r.heap), diag |-> e.diag]
        ELSE IF file_issues.raised # None
        THEN [raised |-> file_issues.raised, batch |-> b, detector |-> det1,
              extractor |-> ext1, heap |-> settled(r.heap), diag |-> e.diag]
        ELSE [raised |-> None,
              batch |->
                [b EXCEPT
                   !.all_issues = Append(@, [file |-> file.path,
                                             errors |-> file_issues.errors,
                                             warnings |-> file_issues.warnings]),
                   !.all_entities.classes = @ \o tagged.classes,
                   !.all_entities.functions = @ \o tagged.functions,
                   !.all_entities.imports = @ \o tagged.imports,
                   !.all_relationships.calls = @ \o TagAll(calls, file.path),
                   !.all_relationships.stats.total_calls = @ + total,
                   !.file_details =
                       DictSet(@, file.path,
                               [classes |-> Len(entities.classes),
                                functions |-> Len(entities.functions),
                                imports |-> Len(entities.imports)])],
              detector |-> det1, extractor |-> ext1,
              heap |-> settled(Store(r.heap, e.ret.entities, tagged)),
              diag |-> e.diag]

\* analyze_folder, line 171 on: detect_relationships on the text read, then
\* the rest of the body.
AfterExtract(b, det, file, e) ==
    AnalyzeFileBody(b, file, e, detect_relationships(det, e.heap, Read(file)),
                    ErrorDetector_analyze(Read(file)))

\* analyze_folder, lines 164-165: open(file_path) fails before anything else
\* is done for the file.
OpenFails(b, det, ext, hp) ==
    [raised |-> "OSError", batch |-> b, detector |-> det, extractor |-> ext,
     heap |-> hp, diag |-> <<>>]

\* analyze_folder, lines 160-210: the body of the loop for one file: the
\* file is read, extract_from_file reads it again, and the body goes on.
AnalyzeFileOutcome(b, det, ext, hp, file) ==
    IF ~file.readable THEN OpenFails(b, det, ext, hp)
    ELSE AfterExtract(b, det, file, extract_from_file(ext, hp, file))

\* A run of analyze_folder between two turns of its loop.
RunState(b, det, ext, hp, dg) ==
    [batch |-> b, detector |-> det, extractor |-> ext, heap |-> hp, diag |-> dg]

\* analyze_folder, lines 212-213: the handler of the loop's try.  An
\* exception it does not catch leaves analyze_folder.
Handled(r) ==
    IF r.raised = None
    THEN RunState(r.batch, r.detector, r.extractor, r.heap, r.diag)
    ELSE IF ExceptException(r.raised)
    THEN RunState(r.batch, r.detector, r.extractor, r.heap, r.diag \o <<"Error in">>)
    ELSE RunState([r.batch EXCEPT !.pc = "aborted"], r.detector, r.extractor,
                  r.heap, r.diag)

\* analyze_folder, line 158: the file the loop takes next, and the loop
\* having taken it.
NextFile(b) == b.files[b.idx + 1]
Taken(b) == [b EXCEPT !.idx = @ + 1, !.visited = Append(@, NextFile(b).path)]

\* analyze_folder, lines 158-213: one turn of the loop, the handler included.
Turn(run) ==
    Handled(AnalyzeFileOutcome(Taken(run.batch), run.detector, run.extractor,
                               run.heap, NextFile(run.batch)))

\* analyze_folder, lines 153-154: the objects that serve every file.
NewRun(b) ==
    RunState(b, NewDetector.self, NewExtractor.self,
             Store(Store(<<>>, DetList, NewDetector.list), EntDict, NewExtractor.dict),
             <<>>)

\* The lists of files of a folder.
Folders == UNION { FileLists(n) : n \in 0 .. MaxFiles }

\* The run after k turns of the loop over a list of files.
RECURSIVE AfterTurns(_, _)
AfterTurns(files, k) ==
    IF k = 0 THEN NewRun([NewBatch(files) EXCEPT !.pc = "loop"])
    ELSE Turn(AfterTurns(files, k - 1))

\* The turns of the loop over each list of files, computed once.
Turns == [files \in Folders |-> [k \in 0 .. Len(files) |-> AfterTurns(files, k)]]

\* Turn(run), taken from the turns over a list of files when run is the
\* state that turn starts from.
TurnFrom(known, run) ==
    IF known[run.batch.idx] = run THEN known[run.batch.idx + 1] ELSE Turn(run)

TurnOf(run) == TurnFrom(Turns[run.batch.files], run)

InitBatch ==
    /\ subject = "batch"
    /\ detector = NewDetector.self
    /\ extractor = NewExtractor.self
    /\ heap = Store(Store(<<>>, DetList, NewDetector.list), EntDict, NewExtractor.dict)
    /\ ret = NoRet
    /\ code = <<>>
    /\ diag = <<>>
    /\ past = [calls |-> 0, size |-> 0]
    /\ error_detector = NewErrorDetector
    /\ chunker = NoChunker
    /\ \E files \in Folders : batch = NewBatch(files)

\* analyze_folder, lines 127-131: no file found ends the run.
FindFiles ==
    /\ subject = "batch"
    /\ batch.pc = "start"
    /\ IF batch.files = <<>>
       THEN /\ batch' = [batch EXCEPT !.pc = "exited"]
            /\ diag' = <<"No Python files found">>
       ELSE /\ batch' = [batch EXCEPT !.pc = "loop"]
            /\ diag' = <<>>
    /\ UNCHANGED <<error_detector, chunker, subject, detector, extractor, heap, ret, code, past>>

\* analyze_folder, lines 158-213: the loop takes its next file.
AnalyzeFile ==
    /\ subject = "batch"
    /\ batch.pc = "loop"
    /\ batch.idx < Len(batch.files)
    /\ LET r == TurnOf(RunState(batch, detector, extractor, heap, diag))
       IN  /\ batch' = r.batch
           /\ detector' = r.detector
           /\ extractor' = r.extractor
           /\ heap' = r.heap
           /\ diag' = r.diag
    /\ code' = batch.files[batch.idx + 1]
    /\ UNCHANGED <<error_detector, chunker, subject, ret, past>>

\* analyze_folder, lines 215-229: the loop has ended; the statistics over the
\* aggregated calls.
Aggregate ==
    /\ subject = "batch"
    /\ batch.pc = "loop"
    /\ batch.idx = Len(batch.files)
    /\ LET calls == batch.all_relationships.calls
       IN  batch' =
             [batch EXCEPT
                !.pc = "aggregated",
                !.all_relationships.stats.unique_callers =
                    Cardinality({ calls[i].caller : i \in 1 .. Len(calls) }),
                !.all_relationships.stats.unique_callees =
                    Cardinality({ calls[i].callee : i \in 1 .. Len(calls) }),
                !.all_relationships.stats.most_called =
                    Take(SortedByCount(Items(Column(calls, "callee"))), TopLimit)]
    /\ UNCHANGED <<error_detector, chunker, subject, detector, extractor, heap, ret, code, diag, past>>

NextBatch ==
    \/ FindFiles
    \/ AnalyzeFile
    \/ Aggregate

\* The run is one sequential program: while a step remains it is taken.
SpecBatch == InitBatch /\ [][NextBatch]_vars /\ WF_vars(NextBatch)

-----------------------------------------------------------------------------
(* What the properties are stated over.                                    *)

\* The value a new detector returns for a text.
FreshDetect(text) ==
    LET r == detect_relationships(NewDetector.self,
                                  Store(<<>>, DetList, NewDetector.list), text)
    IN  [raised |-> r.ret.raised,
         edges |-> IF r.ret.relationships = Null THEN <<>>
                   ELSE r.heap[r.ret.relationships],
         stats |-> r.ret.stats]

\* The dict a new extractor returns for a file.
FreshExtract(file) ==
    LET r == extract_from_file(NewExtractor.self,
                               Store(<<>>, EntDict, NewExtractor.dict), file)
    IN  r.heap[r.ret.entities]

Detected == ret.op = "detect_relationships"
Extracted == ret.op = "extract_from_file"

\* Statement line j encloses statement line i: i lies in the block j opens.
Encloses(st, j, i) ==
    /\ j < i
    /\ \A m \in j + 1 .. i : st[m].tok.ind > st[j].tok.ind

\* The function definitions statement i lies in.
FunctionsAround(st, i) ==
    { j \in 1 .. Len(st) : st[j].tok.k \in {"def", "asyncdef"} /\ Encloses(st, j, i) }

HasEdge(edges, e) == \E n \in 1 .. Len(edges) : edges[n] = e

\* The edges recorded for the calls on one line, in their order.
EdgesAt(edges, line) ==
    LET OnLine(e) == e.line = line IN SelectSeq(edges, OnLine)

\* The text with statement line i replaced by a line of kind k.
WithLine(text, i, k) ==
    LET ls == Split(TranslateNewlines(text))
    IN  Join([n \in 1 .. Len(ls) |->
                 IF n = i THEN [ls[n][1] EXCEPT !.k = k] ELSE ls[n][1]])

\* C1: after detect_relationships(A) and then detect_relationships(B) on one
\* detector, the edges and stats returned for B are those a new detector
\* returns for B, whatever A was.
C1_ReuseMatchesFresh ==
    Detected =>
        /\ ret.raised = None
        /\ RetEdges = FreshDetect(code).edges
        /\ ret.stats = FreshDetect(code).stats

\* Reached: a second call whose text has edges, after a call that returned
\* more edges than it.
C1_Witness ==
    /\ Detected
    /\ past.calls = 2
    /\ RetEdges # <<>>
    /\ past.size > Len(RetEdges)

\* C2: extract and detect_relationships return, for a valid text, the same
\* structure on every call: the one a new object returns, whatever calls the
\* object served before.
C2_Deterministic ==
    /\ Detected /\ ~SyntaxError(code) =>
           /\ RetEdges = FreshDetect(code).edges
           /\ ret.stats = FreshDetect(code).stats
    /\ Extracted /\ code.readable /\ ~SyntaxError(code.text) =>
           RetEntities = FreshExtract(code)

\* Reached: a third call on an extractor, on a valid text that declares a
\* class and a function, after a call that returned entities too.
C2_Witness ==
    /\ Extracted
    /\ past.calls = 3
    /\ past.size > 0
    /\ code.readable /\ ~SyntaxError(code.text)
    /\ RetEntities.classes # <<>>
    /\ RetEntities.functions # <<>>

\* C3: when the text fails to parse, detect_relationships raises nothing and
\* returns no edge and stats whose total_calls, unique_callers and
\* unique_callees are all zero.
C3_ParseFailureZeroStats ==
    Detected /\ SyntaxError(code) =>
        /\ ret.raised = None
        /\ RetEdges = <<>>
        /\ \A key \in {"total_calls", "unique_callers", "unique_callees"} :
               key \in DOMAIN ret.stats /\ ret.stats[key] = 0

\* C4: when the text fails to parse, extract raises nothing, returns empty
\* classes, functions and imports, and reports the syntax error on the
\* diagnostic channel.
C4_ParseFailureEmpty ==
    Extracted /\ code.readable /\ SyntaxError(code.text) =>
        /\ ret.raised = None
        /\ RetEntities.classes = <<>>
        /\ RetEntities.functions = <<>>
        /\ RetEntities.imports = <<>>
        /\ diag = <<"Syntax error in">>

\* Reached: a malformed text given to an extractor whose previous call
\* returned entities.
C4_Witness ==
    /\ Extracted
    /\ code.readable /\ SyntaxError(code.text)
    /\ past.calls >= 2
    /\ past.size > 0

\* C5: in a valid text, a call f-statement inside a function: a bare name
\* target g() gives the edge (function, g, function_call), an attribute
\* target obj.h() gives (function, h, method_call), a subscript target t[0]()
\* gives no edge, and g()() gives the edges of its inner g() alone; nothing
\* is raised.  The function f with body g(); obj.h() gives exactly the edges
\* (f, g, function_call), (f, h, method_call) in that order.
C5_EdgePerTargetShape ==
    Detected /\ ~SyntaxError(code) =>
        LET st == Stmts(code)
        IN  /\ ret.raised = None
            /\ \A i \in 1 .. Len(st) : \A j \in FunctionsAround(st, i) :
                 /\ st[i].tok.k = "call_name" =>
                        HasEdge(RetEdges, Edge(st[j].tok.name, st[i].tok.name,
                                               st[i].lineno, "function_call"))
                 /\ st[i].tok.k = "call_attr" =>
                        HasEdge(RetEdges, Edge(st[j].tok.name, st[i].tok.name,
                                               st[i].lineno, "method_call"))
                 /\ st[i].tok.k = "call_sub" =>
                        EdgesAt(RetEdges, st[i].lineno) = <<>>
                 /\ st[i].tok.k = "call_call" =>
                        EdgesAt(RetEdges, st[i].lineno) =
                        EdgesAt(FreshDetect(WithLine(code, st[i].lineno, "call_name")).edges,
                                st[i].lineno)
            /\ code = Join(<<Line("def", 0, "f"), Line("call_name", 1, "g"),
                             Line("call_attr", 1, "h")>>) =>
                 RetEdges = <<Edge("f", "g", 2, "function_call"),
                              Edge("f", "h", 3, "method_call")>>

\* Reached: the function f with body g(); obj.h() has been analysed.
C5_Witness ==
    /\ Detected
    /\ code = Join(<<Line("def", 0, "f"), Line("call_name", 1, "g"),
                     Line("call_attr", 1, "h")>>)
    /\ Len(RetEdges) = 2

\* Reached: a subscript-target call and a call of a call inside a function.
C5_WitnessOtherShapes ==
    /\ Detected
    /\ code = Join(<<Line("def", 0, "f"), Line("call_sub", 1, "t"),
                     Line("call_call", 1, "g")>>)
    /\ ret.raised = None

\* C6: a call statement at module scope, outside every function definition,
\* gives an edge whose caller is None.
C6_ModuleLevelCallEdge ==
    Detected /\ ~SyntaxError(code) =>
        LET st == Stmts(code)
        IN  \A i \in 1 .. Len(st) :
                st[i].tok.k \in {"call_name", "call_attr"} /\ st[i].tok.ind = 0 =>
                    \E n \in 1 .. Len(RetEdges) :
                        /\ RetEdges[n].line = st[i].lineno
                        /\ RetEdges[n].caller = None

\* The names of the def statements directly in the block that statement j
\* opens, from statement i on, in line order.
RECURSIVE ChildDefs(_, _, _)
ChildDefs(st, j, i) ==
    IF i > Len(st) \/ st[i].tok.ind <= st[j].tok.ind THEN <<>>
    ELSE (IF st[i].tok.ind = st[j].tok.ind + 1 /\ st[i].tok.k \in {"def", "defpass"}
          THEN <<st[i].tok.name>> ELSE <<>>)
         \o ChildDefs(st, j, i + 1)

ClassLines(st) == { st[j].lineno : j \in { i \in 1 .. Len(st) : st[i].tok.k = "class" } }

C9_EdgeLineWithinTotalLines ==
    Detected =>
        \A n \in 1 .. Len(RetEdges) :
            /\ RetEdges[n].line >= 1
            /\ RetEdges[n].line <= FreshExtract(File("m.py", code)).total_lines

\* Reached: a text with '\r' line endings whose last line holds a call that
\* gave an edge.
C9_Witness ==
    /\ Detected
    /\ \E i \in 1 .. Len(code) : code[i] = CR
    /\ \E n \in 1 .. Len(RetEdges) :
           /\ RetEdges[n].line > 1
           /\ RetEdges[n].line = FreshExtract(File("m.py", code)).total_lines

Calculated == ret.op = "_calculate_stats"

\* Where a name first appears in a sequence of names.
FirstAt(xs, x) == CHOOSE i \in 1 .. Len(xs) :
                      xs[i] = x /\ \A j \in 1 .. i - 1 : xs[j] # x

\* Name x ranks before name y: more edges, or as many and seen first.
RanksBefore(xs, x, y) ==
    \/ Count(xs, x) > Count(xs, y)
    \/ Count(xs, x) = Count(xs, y) /\ FirstAt(xs, x) < FirstAt(xs, y)

\* top lists the best ranked names of xs, at most TopLimit of them, each
\* with its number of edges, in rank order.
IsRanking(top, xs) ==
    LET names == { xs[i] : i \in 1 .. Len(xs) }
        listed == { top[i][1] : i \in 1 .. Len(top) }
    IN  /\ Len(top) <= 5
        /\ Len(top) = (IF Cardinality(names) < 5 THEN Cardinality(names) ELSE 5)
        /\ listed \subseteq names
        /\ \A i \in 1 .. Len(top) : top[i][2] = Count(xs, top[i][1])
        /\ \A i, j \in 1 .. Len(top) : i < j => RanksBefore(xs, top[i][1], top[j][1])
        /\ \A x \in listed : \A y \in names \ listed : RanksBefore(xs, x, y)

\* C7: most_called lists at most 5 (callee, count) pairs, count the number
\* of edges with that callee, by count descending, callees with equal
\* counts in the order they were first seen in the edge list;
\* most_calls_from is the same over callers.  Edges with callees x, x, y
\* give most_called [(x, 2), (y, 1)].
C7_TopFiveByCountThenFirstSeen ==
    Calculated /\ heap[DetList] # <<>> =>
        LET rels == heap[DetList]
        IN  /\ IsRanking(ret.stats.most_called, Column(rels, "callee"))
            /\ IsRanking(ret.stats.most_calls_from, Column(rels, "caller"))
            /\ Column(rels, "callee") = <<"p", "p", "q">> =>
                   ret.stats.most_called = << <<"p", 2>>, <<"q", 1>> >>

\* Reached: statistics of a list with more than 5 callees, the first two
\* listed with as many edges as each other.
C7_Witness ==
    /\ Calculated
    /\ Len(heap[DetList]) = MaxEdges
    /\ ret.stats.unique_callees > 5
    /\ Len(ret.stats.most_called) = 5
    /\ ret.stats.most_called[1][2] = ret.stats.most_called[2][2]

\* Reached: statistics of a list in which a callee seen later has more edges
\* than one seen before it, and two callees tie.
C7_WitnessReordered ==
    /\ Calculated
    /\ Column(heap[DetList], "callee") = <<"p", "q", "r", "r">>
    /\ ret.stats.most_called = << <<"r", 2>>, <<"p", 1>>, <<"q", 1>> >>

\* The loop has taken the files before its position, each once, in list
\* order, and no exception has left it.
BatchInOrder ==
    /\ batch.pc # "aborted"
    /\ batch.idx <= Len(batch.files)
    /\ batch.visited = [i \in 1 .. batch.idx |-> batch.files[i].path]
    /\ batch.pc = "aggregated" => batch.idx = Len(batch.files)

\* C10: in analyze_folder over any list of files a malformed file never
\* aborts the run: the loop goes on with every later file, each file is
\* taken exactly once in list order, and the run always reaches the
\* aggregation after the last file.
C10_MalformedFileNeverAborts ==
    /\ []BatchInOrder
    /\ \A n \in 0 .. MaxFiles :
           (batch.pc = "loop" /\ batch.idx = n) ~>
               (batch.pc = "aggregated" /\ batch.idx = Len(batch.files))

\* Reached: the aggregation of a run whose first file is malformed and whose
\* later file, a valid one, has its details recorded.
C10_Witness ==
    /\ batch.pc = "aggregated"
    /\ Len(batch.files) >= 2
    /\ batch.files[1].readable /\ SyntaxError(batch.files[1].text)
    /\ batch.files[2].readable /\ ~SyntaxError(batch.files[2].text)
    /\ batch.files[2].path \in DOMAIN batch.file_details
    /\ batch.visited[2] = batch.files[2].path

\* The innermost of the function definitions statement i lies in.
InnermostFunction(st, i) ==
    CHOOSE j \in FunctionsAround(st, i) : \A m \in FunctionsAround(st, i) : m <= j

\* C11: the caller of every edge is the name of the innermost function
\* definition around its call: a call inside a function g defined inside f
\* is attributed to g and never to f.
C11_CallerIsInnermostFunction ==
    Detected /\ ~SyntaxError(code) =>
        LET st == Stmts(code)
        IN  \A n \in 1 .. Len(RetEdges) : \A i \in 1 .. Len(st) :
                st[i].lineno = RetEdges[n].line /\ FunctionsAround(st, i) # {} =>
                    RetEdges[n].caller = st[InnermostFunction(st, i)].tok.name

\* The nodes of a tree in depth-first pre-order: a node, then the subtree of
\* each of its children in turn.
RECURSIVE PreOrder(_)
RECURSIVE PreOrderAll(_)
PreOrder(node) == <<node>> \o PreOrderAll(node.kids)

PreOrderAll(nodes) ==
    IF nodes = <<>> THEN <<>>
    ELSE PreOrder(Head(nodes)) \o PreOrderAll(Tail(nodes))

\* Where, in a sequence of nodes, the call expression on a line with a
\* bare-name or attribute target stands.
CallAt(nodes, line) ==
    CHOOSE p \in 1 .. Len(nodes) :
        /\ nodes[p].type = "Call"
        /\ nodes[p].lineno = line
        /\ nodes[p].kids[1].type \in {"Name", "Attribute"}

\* C12: the edges are listed in the order one depth-first pre-order
\* traversal of the whole tree meets their call expressions: of two edges,
\* the one whose call expression comes first in pre-order comes first.
C12_EdgesInPreOrder ==
    Detected /\ ~SyntaxError(code) =>
        LET nodes == PreOrder(Parse(code).tree)
        IN  \A m, n \in 1 .. Len(RetEdges) :
                CallAt(nodes, RetEdges[m].line) < CallAt(nodes, RetEdges[n].line)
                    => m < n

\* The lines of the def statements of a text.
DefLines(st) ==
    { st[j].lineno : j \in { i \in 1 .. Len(st) : st[i].tok.k \in {"def", "defpass"} } }

ImportKinds == {"import_many", "from_many", "from_rel"}

\* The records the import statement on a line of a text stands for: one per
\* target, in the order the statement names them.
\*   import os, sys as s        from m import x, y as z        from . import x
ImportsOf(tok, line) ==
    CASE tok.k = "import_many" ->
            << [type |-> "import", module |-> "os", alias |-> None, line |-> line],
               [type |-> "import", module |-> "sys", alias |-> "s", line |-> line] >>
      [] tok.k = "from_many" ->
            << [type |-> "from", module |-> tok.name, name |-> "x", alias |-> None,
                line |-> line],
               [type |-> "from", module |-> tok.name, name |-> "y", alias |-> "z",
                line |-> line] >>
      [] tok.k = "from_rel" ->
            << [type |-> "from", module |-> "", name |-> "x", alias |-> None,
                line |-> line] >>
      [] OTHER -> <<>>

\* The records of a list that carry a line number, in their order.
RecordsAt(records, line) ==
    LET OnLine(r) == r.line = line IN SelectSeq(records, OnLine)

\* C14: an import statement naming n targets gives exactly n import
\* records, one per target in statement order, each with the line of the
\* statement; a direct import records (module, alias), a from-import
\* (source module, imported name, alias).  No other import record exists.
C14_OneImportRecordPerTarget ==
    Extracted /\ code.readable /\ ~SyntaxError(code.text) =>
        LET st == Stmts(code.text)
            imports == RetEntities.imports
        IN  /\ \A j \in 1 .. Len(st) :
                   RecordsAt(imports, st[j].lineno) = ImportsOf(st[j].tok, st[j].lineno)
            /\ \A n \in 1 .. Len(imports) :
                   \E j \in 1 .. Len(st) : st[j].lineno = imports[n].line

\* Reached: a text with `import os, sys as s` inside a function and
\* `from m import x, y as z` after it has been extracted: four records.
C14_Witness ==
    /\ Extracted
    /\ code.readable
    /\ code.text = Join(<<Line("def", 0, "f"), Line("import_many", 1, ""),
                          Line("from_many", 0, "m")>>)
    /\ Len(RetEntities.imports) = 4
    /\ RetEntities.imports[2].alias = "z"
    /\ RetEntities.imports[4].alias = "s"

\* C15: for a valid text, the stats detect_relationships returns count the
\* edge list it returns: total_calls is its length, unique_callers the
\* number of distinct caller names other than None in it, unique_callees the
\* number of distinct callee names in it.
C15_StatsCountReturnedEdges ==
    Detected /\ ~SyntaxError(code) =>
        /\ ret.raised = None
        /\ ret.stats.total_calls = Len(RetEdges)
        /\ ret.stats.unique_callers =
               Cardinality({ RetEdges[n].caller : n \in 1 .. Len(RetEdges) } \ {None})
        /\ ret.stats.unique_callees =
               Cardinality({ RetEdges[n].callee : n \in 1 .. Len(RetEdges) })

\* Reached: a result with more edges than callers and more edges than
\* callees, and more than one of each.
C15_Witness ==
    /\ Detected
    /\ ~SyntaxError(code)
    /\ Len(RetEdges) = 3
    /\ ret.stats.unique_callers = 2
    /\ ret.stats.unique_callees = 2

\* The files of a run whose turn of the loop ran to its end.
AnalyzedFiles ==
    { i \in 1 .. Len(batch.files) : batch.files[i].path \in DOMAIN batch.file_details }

\* C16: after analyze_folder over any list of files, the aggregated calls
\* hold every edge detect_relationships returned for every analysed file,
\* tagged with that file, so the aggregated total_calls is the length of the
\* aggregated calls and unique_callers, unique_callees count those edges.
C16_AggregatedCallsHoldEveryEdge ==
    batch.pc = "aggregated" =>
        LET calls == batch.all_relationships.calls
            stats == batch.all_relationships.stats
        IN  /\ \A i \in AnalyzedFiles :
                   LET edges == FreshDetect(Read(batch.files[i])).edges
                   IN  \A n \in 1 .. Len(edges) :
                           HasEdge(calls, Tag(edges[n], batch.files[i].path))
            /\ stats.total_calls = Len(calls)
            /\ stats.unique_callers =
                   Cardinality({ calls[n].caller : n \in 1 .. Len(calls) })
            /\ stats.unique_callees =
                   Cardinality({ calls[n].callee : n \in 1 .. Len(calls) })

\* The call expressions of a tree that have a bare-name or attribute target.
RecordedCalls(tree) ==
    LET nodes == PreOrder(tree)
    IN  { p \in 1 .. Len(nodes) :
            /\ nodes[p].type = "Call"
            /\ nodes[p].kids[1].type \in {"Name", "Attribute"} }

\* C17: detect_relationships records exactly one edge for each call
\* expression with a bare-name or attribute target: as many edges, and as
\* large a total_calls, as there are such calls, one per call, also for a
\* call inside a function defined inside other functions.
C17_OneEdgePerCall ==
    Detected /\ ~SyntaxError(code) =>
        LET tree == Parse(code).tree
            nodes == PreOrder(tree)
        IN  /\ Len(RetEdges) = Cardinality(RecordedCalls(tree))
            /\ ret.stats.total_calls = Cardinality(RecordedCalls(tree))
            /\ \A p \in RecordedCalls(tree) :
                   Len(EdgesAt(RetEdges, nodes[p].lineno)) = 1

\* The object the latest call returned: the edge list, or the entities dict.
RetRef ==
    IF Detected THEN ret.relationships
    ELSE IF Extracted THEN ret.entities
    ELSE Null

\* The objects as the next call on an input leaves them, those no longer
\* referred to included.
HeapAfterCall(input) ==
    IF subject = "detector"
    THEN detect_relationships(detector, heap, input).heap
    ELSE extract_from_file(extractor, heap, input).heap

\* C18: what an earlier extract or detect_relationships call returned does
\* not change: a later call on the same object, on a text that parses or on
\* one that does not, leaves the returned edge list and the returned
\* collections as they were.
C18_EarlierResultUnchanged ==
    [][RetRef # Null => HeapAfterCall(code')[RetRef] = heap[RetRef]]_vars

\* Reached: a detector that returned edges has been called again and
\* returned none.
C18_Witness ==
    /\ Detected
    /\ past.calls >= 2
    /\ past.size > 0
    /\ Len(RetEdges) = 0

\* Reached: an extractor that returned entities has been called again, on a
\* file that cannot be read or on one with other entities.
C18_WitnessExtractor ==
    /\ Extracted
    /\ past.calls >= 2
    /\ past.size > 0
    /\ \/ ~code.readable
       \/ RetSize # past.size

\* The line numbers of the nodes of one type in a sequence of nodes.
RECURSIVE LinesOfType(_, _)
LinesOfType(nodes, type) ==
    IF nodes = <<>> THEN <<>>
    ELSE (IF Head(nodes).type = type THEN <<Head(nodes).lineno>> ELSE <<>>)
         \o LinesOfType(Tail(nodes), type)

\* C19: the classes and the functions extract returns are listed in the
\* order a depth-first pre-order traversal of the tree meets their
\* declarations: a method of a class declared before a top-level function
\* comes before that function in functions.
C19_EntitiesInPreOrder ==
    Extracted /\ code.readable /\ ~SyntaxError(code.text) =>
        LET nodes == PreOrder(Parse(code.text).tree)
        IN  /\ Column(RetEntities.functions, "line") = LinesOfType(nodes, "FunctionDef")
            /\ Column(RetEntities.classes, "line") = LinesOfType(nodes, "ClassDef")

\* C20: in every result of extract, each name in the methods of a class
\* record is the name of a function record of the same result.
C20_MethodsAreFunctionRecords ==
    Extracted /\ code.readable /\ ~SyntaxError(code.text) =>
        LET classes == RetEntities.classes
            functions == RetEntities.functions
        IN  \A c \in 1 .. Len(classes) : \A m \in 1 .. Len(classes[c].methods) :
                \E n \in 1 .. Len(functions) :
                    functions[n].name = classes[c].methods[m]

\* Reached: a class whose body holds the methods a and b and an async def
\* between them has been extracted.
C20_Witness ==
    /\ Extracted
    /\ code.readable
    /\ code.text = Join(<<Line("class", 0, "A"), Line("defpass", 1, "a"),
                          Line("asyncdefpass", 1, "d"), Line("defpass", 1, "b")>>)
    /\ RetEntities.classes[1].methods = <<"a", "b">>
    /\ Len(RetEntities.functions) = 2

\* The text with every `async def` written as `def`.
Synchronous(text) ==
    [i \in 1 .. Len(text) |->
        IF text[i].k = "asyncdef" THEN [text[i] EXCEPT !.k = "def"] ELSE text[i]]

\* C21: the detector treats an async function as it treats a function: the
\* edges and stats of a valid text are those of the text with its async def
\* statements written as def, and a call in the body of an async function a
\* has an edge with caller a.
C21_AsyncTreatedAsSync ==
    Detected /\ ~SyntaxError(code) =>
        LET st == Stmts(code)
        IN  /\ RetEdges = FreshDetect(Synchronous(code)).edges
            /\ ret.stats = FreshDetect(Synchronous(code)).stats
            /\ \A i \in 2 .. Len(st) :
                   /\ st[i - 1].tok.k = "asyncdef"
                   /\ st[i].tok.k \in {"call_name", "call_attr"}
                   => \E n \in 1 .. Len(RetEdges) :
                          /\ RetEdges[n].caller = st[i - 1].tok.name
                          /\ RetEdges[n].callee = st[i].tok.name
                          /\ RetEdges[n].line = st[i].lineno

\* Reached: a call inside an async function a, itself inside a function,
\* has given an edge with caller a.
C21_Witness ==
    /\ Detected
    /\ code = Join(<<Line("def", 0, "f"), Line("asyncdef", 1, "a"),
                     Line("call_name", 2, "g")>>)
    /\ HasEdge(RetEdges, Edge("a", "g", 3, "function_call"))

\* C22: for every text, each caller name in an edge detect_relationships
\* returns is the name of a function record extract returns for the same
\* text.
C22_CallersAreExtractedFunctions ==
    Detected =>
        LET functions == FreshExtract(File("m.py", code)).functions
        IN  \A n \in 1 .. Len(RetEdges) :
                \E m \in 1 .. Len(functions) : functions[m].name = RetEdges[n].caller

\* C23: when the file cannot be read, extract_from_file returns empty
\* classes, functions and imports, whatever the extractor was called on
\* before.
C23_UnreadableFileEmptyResult ==
    Extracted /\ ~code.readable =>
        /\ ret.raised = None
        /\ RetEntities.classes = <<>>
        /\ RetEntities.functions = <<>>
        /\ RetEntities.imports = <<>>

Analyzed == ret.op = "analyze"

\* The lists a new ErrorDetector returns for a text.
FreshAnalyze(text) == analyze(NewErrorDetector, text).self

\* C24: ErrorDetector.analyze returns the errors and warnings of the text it
\* is given and no others: after analyze(A) and then analyze(B) on one
\* object, the lists returned for B hold no issue that comes from A.
C24_IssuesOfThisCallOnly ==
    Analyzed /\ ret.raised = None =>
        /\ error_detector.errors = FreshAnalyze(code).errors
        /\ error_detector.warnings = FreshAnalyze(code).warnings

-----------------------------------------------------------------------------
\* C25: for chunk_size > overlap >= 0, chunk_code terminates; the chunks it
\* returns are in increasing start order, each with
\* 1 <= start_line <= end_line <= number of lines; the windows of the loop
\* start chunk_size - overlap apart, and each chunk is one of them; and every
\* line with non-whitespace content lies within the range of a returned chunk.
ChunkPre == chunker.chunk_size > chunker.overlap /\ chunker.overlap >= 0

ChunksInOrder(c) ==
    \A k \in 1 .. Len(c.chunks) - 1 :
        c.chunks[k].start_line < c.chunks[k + 1].start_line

ChunksInBounds(c) ==
    \A k \in 1 .. Len(c.chunks) :
        /\ 1 <= c.chunks[k].start_line
        /\ c.chunks[k].start_line <= c.chunks[k].end_line
        /\ c.chunks[k].end_line <= Len(Split(code))

WindowsOnStep(c) ==
    /\ \A k \in 1 .. Len(c.windows) - 1 :
          c.windows[k + 1] - c.windows[k] = c.chunk_size - c.overlap
    /\ \A k \in 1 .. Len(c.chunks) :
          \E w \in 1 .. Len(c.windows) : c.chunks[k].start_line = c.windows[w] + 1

ContentCovered(c) ==
    \A n \in 1 .. Len(Split(code)) :
        (\E t \in 1 .. Len(Split(code)[n]) : ~IsSpace(Split(code)[n][t])) =>
            \E k \in 1 .. Len(c.chunks) :
                c.chunks[k].start_line <= n /\ n <= c.chunks[k].end_line

C25_ChunksCoverContent ==
    /\ [](ChunkPre /\ chunker.pc \in {"loop", "done"} =>
            ChunksInOrder(chunker) /\ ChunksInBounds(chunker) /\ WindowsOnStep(chunker))
    /\ [](ChunkPre /\ chunker.pc = "done" => ContentCovered(chunker))
    /\ (ChunkPre /\ chunker.pc = "start") ~> (chunker.pc = "done")

\* chunk_code has returned for an overlap above zero: a blank window was
\* skipped, two chunks were returned and the last one ends at the last line,
\* short of its window.
C25_Witness ==
    /\ chunker.pc = "done"
    /\ ChunkPre
    /\ chunker.overlap > 0
    /\ Len(chunker.chunks) >= 2
    /\ Len(chunker.windows) > Len(chunker.chunks)
    /\ LET last == chunker.chunks[Len(chunker.chunks)]
       IN  /\ last.end_line = Len(chunker.lines)
           /\ last.end_line < last.start_line - 1 + chunker.chunk_size

\* The files of a run that open() could read.
ReadFiles == { i \in 1 .. Len(batch.files) : batch.files[i].readable }

\* C26: after analyze_folder, every file that was read has one entry in
\* file_details and one entry in all_issues, so the number of files reported
\* as analysed is the number of files that were read, malformed ones included.
C26_EveryReadFileCounted ==
    batch.pc = "aggregated" =>
        /\ \A i \in ReadFiles :
               /\ batch.files[i].path \in DOMAIN batch.file_details
               /\ Cardinality({ n \in 1 .. Len(batch.all_issues) :
                                  batch.all_issues[n].file = batch.files[i].path }) = 1
        /\ Cardinality(DOMAIN batch.file_details) = Cardinality(ReadFiles)

=============================================================================
